---- MODULE Spec2Model ----
(***************************************************************************)
(* Model of the okp4-cognitarium triple store contract: instantiate,       *)
(* execute (InsertData) and query, over the contract's storage items       *)
(* STORE, TRIPLE_KEY_INCREMENT and the indexed map "TRIPLE" with its       *)
(* (subject, predicate) multi-index (specification Spec); and of the       *)
(* okp4-dataverse contract, the Node conversion and the cw-storage         *)
(* PaginationConfig, each applied to bounded inputs (specification         *)
(* SpecLib).                                                               *)
(*                                                                         *)
(* Option<T> is modelled as a sequence: None == <<>>, Some(x) == <<x>>.    *)
(* Strings that the code cuts into pieces (IRIs) are sequences of          *)
(* one-character strings.                                                  *)
(***************************************************************************)
EXTENDS Integers, Sequences, FiniteSets, TLC

VARIABLES
    CONTRACT,                  \* cw2 contract info item (Option)
    STORE,                     \* Item<Store> (Option: None until instantiate)
    TRIPLE_KEY_INCREMENT,      \* Item<Uint128> (Option)
    TRIPLE,                    \* primary map of triples(): pk -> Triple
    TRIPLE__SUBJECT_PREDICATE, \* multi-index of triples(): {(subject, predicate, pk)}
    inserted,                  \* history: the triples of the successful insert
                               \* calls, in call order and, within a call, in
                               \* the order of the parsed stream
    DATAVERSE_CONTRACT,        \* okp4-dataverse: cw2 contract info item (Option)
    DATAVERSE,                 \* okp4-dataverse: Item<Dataverse> (Option)
    returned,                  \* the last call of SpecLib: the operation, its
                               \* input and its result
    lastCall                   \* the last entry-point call: its sender, the
                               \* limits it supplied (instantiate), the number
                               \* n of raw triples of its input, the byte size
                               \* of its payload and whether the input is
                               \* well-formed (insert), the query it carried
                               \* (query), the primary keys it wrote in its
                               \* own storage before the host committed or
                               \* discarded them (insert), and its result

vars ==
    <<CONTRACT, STORE, TRIPLE_KEY_INCREMENT, TRIPLE, TRIPLE__SUBJECT_PREDICATE,
      inserted, DATAVERSE_CONTRACT, DATAVERSE, returned, lastCall>>

(* ------------------------------ bounds --------------------------------- *)

\* Largest primary key the explored stores may reach.
MaxKey == 3

\* Largest number of raw triples one parsed input may hold.
MaxBatch == 2

\* Largest max_triple_count ceiling supplied at instantiation.
MaxLimit == 2

\* Largest number of characters of the IRIs handed to the Node conversion.
MaxIriLen == 3

\* Width in bits of the model's u32: the 32 bits of the code scaled down,
\* wide enough for the page size defaults.
U32Bits == 6

(* ------------------------------ options -------------------------------- *)

None == <<>>

Some(x) == <<x>>

is_some(o) == o # <<>>

unwrap(o) == o[1]

(* ------------------------------ results -------------------------------- *)

NoError == [kind |-> "", name |-> "", value |-> 0]

\* ContractError::Std(StdError::..)
StdErr(name) == [kind |-> "Std", name |-> name, value |-> 0]

\* ContractError::Store(StoreError::..(max))
StoreErr(name, max) == [kind |-> "Store", name |-> name, value |-> max]

Ok(v) == [ok |-> TRUE, val |-> <<v>>, err |-> NoError]

Err(e) == [ok |-> FALSE, val |-> <<>>, err |-> e]

(* ------------------------------ raw terms ------------------------------ *)

IriA == <<"n", "#", "a">>

IriB == <<"n", "/", "m", "#", "b">>

IriP == <<"n", "/", "p">>

IriQ == <<"u", ":", "q">>

\* An IRI without any namespace separator.
IriOpaque == <<"x">>

RawNamed(iri) == [kind |-> "NamedNode", iri |-> iri]

RawBlank(id) == [kind |-> "BlankNode", id |-> id]

\* A quoted (RDF-star) triple in subject or object position.
RawQuoted == [kind |-> "Triple"]

RawSimple(v) == [kind |-> "Literal", literal |-> [kind |-> "Simple", value |-> v]]

RawLang(v, l) ==
    [kind |-> "Literal",
     literal |-> [kind |-> "LanguageTaggedString", value |-> v, language |-> l]]

RawTyped(v, dt) ==
    [kind |-> "Literal",
     literal |-> [kind |-> "Typed", value |-> v, datatype |-> RawNamed(dt)]]

RawTriple(s, p, o) == [subject |-> s, predicate |-> p, object |-> o]

\* The raw triples the external parser may hand over.
RawTriples ==
    { RawTriple(RawNamed(IriA), RawNamed(IriP), RawNamed(IriB)),
      RawTriple(RawBlank("b0"), RawNamed(IriQ), RawTyped("v", IriB)),
      RawTriple(RawNamed(IriA), RawNamed(IriP), RawQuoted) }

\* One raw triple for every pair of a subject construct and an object
\* construct of the parser's model.
TermRawTriples ==
    { RawTriple(s, RawNamed(IriP), o) :
        s \in {RawNamed(IriA), RawBlank("b0"), RawQuoted},
        o \in {RawNamed(IriB), RawBlank("b1"), RawSimple("v"),
               RawLang("v", "en"), RawTyped("v", IriB), RawQuoted} }

Formats == {"RDFXml", "Turtle", "NTriples"}

RawStreams == UNION { [1..n -> RawTriples] : n \in 0..MaxBatch }

\* A DataInput as the parser sees it: the declared format, the raw triples
\* the payload yields, and whether the payload ends in a syntax error.
DataInputs ==
    [format : Formats, triples : RawStreams, syntax_error : BOOLEAN]

Senders == {"owner", "not-owner"}

(* --------------------------- term conversion --------------------------- *)

NamespaceSeparators == {"#", "/", ":"}

\* rdf::explode_iri: split an IRI after its last namespace separator.
explode_iri(iri) ==
    LET marks == {i \in 1..Len(iri) : iri[i] \in NamespaceSeparators}
    IN  IF marks = {}
        THEN Err(StdErr("Couldn't extract IRI namespace"))
        ELSE LET index == CHOOSE i \in marks : \A j \in marks : j <= i
             IN  Ok(<<SubSeq(iri, 1, index), SubSeq(iri, index + 1, Len(iri))>>)

\* Node::try_from leaving the separator out of the namespace.
Node_try_from_without_separator(value) ==
    LET r == explode_iri(value.iri)
    IN  IF r.ok
        THEN Ok([namespace |-> SubSeq(unwrap(r.val)[1], 1,
                                      Len(unwrap(r.val)[1]) - 1),
                 value |-> unwrap(r.val)[2]])
        ELSE r

\* impl TryFrom<NamedNode> for Node
Node_try_from(value) ==
    LET r == explode_iri(value.iri)
    IN  IF r.ok
        THEN Ok([namespace |-> unwrap(r.val)[1], value |-> unwrap(r.val)[2]])
        ELSE r

\* impl TryFrom<rio_api::model::Literal> for Literal
Literal_try_from(value) ==
    CASE value.kind = "Simple" ->
            Ok([kind |-> "Simple", value |-> value.value])
      [] value.kind = "LanguageTaggedString" ->
            Ok([kind |-> "I18NString", value |-> value.value,
                language |-> value.language])
      [] value.kind = "Typed" ->
            LET r == Node_try_from(value.datatype)
            IN  IF r.ok
                THEN Ok([kind |-> "Typed", value |-> value.value,
                         datatype |-> unwrap(r.val)])
                ELSE r

\* impl TryFrom<rio_api::model::Subject> for Subject
Subject_try_from(value) ==
    CASE value.kind = "NamedNode" ->
            LET r == Node_try_from(value)
            IN  IF r.ok THEN Ok([kind |-> "Named", node |-> unwrap(r.val)]) ELSE r
      [] value.kind = "BlankNode" -> Ok([kind |-> "Blank", id |-> value.id])
      [] OTHER -> Err(StdErr("Not implemented"))

\* Object::try_from taking a quoted triple for a blank node.
Object_try_from_quoted_as_blank(value) ==
    CASE value.kind = "NamedNode" ->
            LET r == Node_try_from(value)
            IN  IF r.ok THEN Ok([kind |-> "Named", node |-> unwrap(r.val)]) ELSE r
      [] value.kind = "Literal" ->
            LET r == Literal_try_from(value.literal)
            IN  IF r.ok
                THEN Ok([kind |-> "Literal", literal |-> unwrap(r.val)])
                ELSE r
      [] value.kind = "BlankNode" -> Ok([kind |-> "Blank", id |-> value.id])
      [] OTHER -> Ok([kind |-> "Blank", id |-> "quoted"])

\* impl TryFrom<rio_api::model::Term> for Object
Object_try_from(value) ==
    CASE value.kind = "BlankNode" -> Ok([kind |-> "Blank", id |-> value.id])
      [] value.kind = "NamedNode" ->
            LET r == Node_try_from(value)
            IN  IF r.ok THEN Ok([kind |-> "Named", node |-> unwrap(r.val)]) ELSE r
      [] value.kind = "Literal" ->
            LET r == Literal_try_from(value.literal)
            IN  IF r.ok
                THEN Ok([kind |-> "Literal", literal |-> unwrap(r.val)])
                ELSE r
      [] OTHER -> Err(StdErr("RDF star syntax unsupported"))

\* impl TryFrom<rio_api::model::Triple> for Triple
Triple_try_from(value) ==
    LET s == Subject_try_from(value.subject)
        p == Node_try_from(value.predicate)
        o == Object_try_from(value.object)
    IN  IF ~s.ok THEN s
        ELSE IF ~p.ok THEN p
        ELSE IF ~o.ok THEN o
        ELSE Ok([subject |-> unwrap(s.val), predicate |-> unwrap(p.val),
                 object |-> unwrap(o.val)])

\* The convert_fn closure of insert, |triple| Ok(triple.try_into()?), as the
\* function it is on the raw triples of the inputs.
convert_fn ==
    [triple \in RawTriples \cup TermRawTriples |-> Triple_try_from(triple)]

(* ------------------------------ byte sizes ----------------------------- *)

\* Sum of f[x] over the indices of a sequence or the keys of a map.
RECURSIVE SumOver(_, _)
SumOver(f, keys) ==
    IF keys = {}
    THEN 0
    ELSE LET k == CHOOSE x \in keys : TRUE
         IN  f[k] + SumOver(f, keys \ {k})

\* Bytes of a raw term as a payload spells it out; a quoted triple is
\* counted as empty.
RawTerm_byte_size(t) ==
    CASE t.kind = "NamedNode" -> Len(t.iri)
      [] t.kind = "BlankNode" -> Len(t.id)
      [] t.kind = "Literal" ->
            Len(t.literal.value)
            + (IF t.literal.kind = "LanguageTaggedString"
               THEN Len(t.literal.language) ELSE 0)
            + (IF t.literal.kind = "Typed"
               THEN Len(t.literal.datatype.iri) ELSE 0)
      [] OTHER -> 0

\* Bytes of the payload of a DataInput: at least the bytes of the terms of
\* its triples.
DataInput_byte_size(input) ==
    SumOver([i \in 1..Len(input.triples) |->
                RawTerm_byte_size(input.triples[i].subject)
                + RawTerm_byte_size(input.triples[i].predicate)
                + RawTerm_byte_size(input.triples[i].object)],
            1..Len(input.triples))

Node_byte_size(n) == Len(n.namespace) + Len(n.value)

\* The size of a triple as StoreLimits counts it: the sizes of its subject,
\* predicate and object, data type and language tag included.
Triple_byte_size(t) ==
    (IF t.subject.kind = "Named"
     THEN Node_byte_size(t.subject.node) ELSE Len(t.subject.id))
    + Node_byte_size(t.predicate)
    + (CASE t.object.kind = "Named" -> Node_byte_size(t.object.node)
         [] t.object.kind = "Blank" -> Len(t.object.id)
         [] t.object.kind = "Literal" ->
               Len(t.object.literal.value)
               + (IF t.object.literal.kind = "I18NString"
                  THEN Len(t.object.literal.language) ELSE 0)
               + (IF t.object.literal.kind = "Typed"
                  THEN Node_byte_size(t.object.literal.datatype) ELSE 0))

(* ------------------------------- limits -------------------------------- *)

\* msg::StoreLimits values supplied at instantiation: max_triple_count ranges
\* over unset and 1..MaxLimit, the six other ceilings are all unset or all set.
StoreLimitsInputs ==
    { [max_triple_count |-> mtc,
       max_byte_size |-> IF set THEN Some(2) ELSE None,
       max_triple_byte_size |-> IF set THEN Some(3) ELSE None,
       max_query_limit |-> IF set THEN Some(4) ELSE None,
       max_query_variable_count |-> IF set THEN Some(5) ELSE None,
       max_insert_data_byte_size |-> IF set THEN Some(6) ELSE None,
       max_insert_data_triple_count |-> IF set THEN Some(1) ELSE None] :
         mtc \in {None} \cup {Some(n) : n \in 1..MaxLimit}, set \in BOOLEAN }

\* impl From<msg::StoreLimits> for state::StoreLimits (msg.limits.into())
StoreLimits_from(limits) ==
    [max_triple_count |-> limits.max_triple_count,
     max_byte_size |-> limits.max_byte_size,
     max_triple_byte_size |-> limits.max_triple_byte_size,
     max_query_limit |-> limits.max_query_limit,
     max_query_variable_count |-> limits.max_query_variable_count,
     max_insert_data_byte_size |-> limits.max_insert_data_byte_size,
     max_insert_data_triple_count |-> limits.max_insert_data_triple_count]

\* Store::new(owner, limits)
Store_new(owner, limits) ==
    [owner |-> owner, limits |-> limits, stat |-> [triples_count |-> 0]]

(* ------------------------------- storage ------------------------------- *)

\* The contract's storage as one value (deps.storage).
Storage ==
    [CONTRACT |-> CONTRACT,
     STORE |-> STORE,
     TRIPLE_KEY_INCREMENT |-> TRIPLE_KEY_INCREMENT,
     TRIPLE |-> TRIPLE,
     TRIPLE__SUBJECT_PREDICATE |-> TRIPLE__SUBJECT_PREDICATE]

EmptyMap == [k \in {} |-> 0]

\* The index function of the subject_and_predicate MultiIndex, paired with
\* the primary key as the index stores it.
subject_and_predicate(pk, triple) ==
    [subject |-> triple.subject, predicate |-> triple.predicate, pk |-> pk]

\* triples_save as a plain map would do it: the value is written under pk
\* and the subject_and_predicate index is left alone.
triples_save_unindexed(storage, pk, triple) ==
    [storage EXCEPT !.TRIPLE = (pk :> triple) @@ storage.TRIPLE]

\* triples().save(storage, pk, &triple): drop the index entry of the value
\* previously held under pk, if any, add the entry of the new value and
\* write the value under pk.
triples_save(storage, pk, triple) ==
    LET old == IF pk \in DOMAIN storage.TRIPLE
               THEN {subject_and_predicate(pk, storage.TRIPLE[pk])}
               ELSE {}
    IN  [storage EXCEPT
            !.TRIPLE = (pk :> triple) @@ storage.TRIPLE,
            !.TRIPLE__SUBJECT_PREDICATE =
                (storage.TRIPLE__SUBJECT_PREDICATE \ old)
                    \cup {subject_and_predicate(pk, triple)}]

(* ------------------------------ responses ------------------------------ *)

\* Response::default()
Response_default == [action |-> "", inserted_count |-> 0, messages |-> 0]

\* Response::new().add_attribute("action", "insert")
\*                .add_attribute("inserted_count", n)
Response_insert(n) == [action |-> "insert", inserted_count |-> n, messages |-> 0]

(* ------------------------------- insert -------------------------------- *)

\* insert_use_fn with the ceiling compared by <= instead of <: a batch that
\* reaches max_triple_count exactly is rejected.
insert_use_fn_off_by_one(env, res) ==
    IF ~res.ok
    THEN [env |-> env, res |-> Err(res.err)]
    ELSE LET pk == env.pk + 1
             store == [env.store EXCEPT !.stat.triples_count = @ + 1]
             env1 == [env EXCEPT !.pk = pk, !.store = store]
             max == store.limits.max_triple_count
         IN  IF is_some(max) /\ unwrap(max) <= store.stat.triples_count
             THEN [env |-> env1,
                   res |-> Err(StoreErr("MaxTriplesLimitExceeded", unwrap(max)))]
             ELSE [env |-> [env1 EXCEPT
                              !.storage = triples_save(@, pk, unwrap(res.val))],
                   res |-> Ok("()")]

\* insert_use_fn without the update of the captured pk: every triple of a
\* batch is saved under the same key.
insert_use_fn_stale_pk(env, res) ==
    IF ~res.ok
    THEN [env |-> env, res |-> Err(res.err)]
    ELSE LET pk == unwrap(env.storage.TRIPLE_KEY_INCREMENT) + 1
             store == [env.store EXCEPT !.stat.triples_count = @ + 1]
             env1 == [env EXCEPT !.pk = pk, !.store = store]
             max == store.limits.max_triple_count
         IN  IF is_some(max) /\ unwrap(max) < store.stat.triples_count
             THEN [env |-> env1,
                   res |-> Err(StoreErr("MaxTriplesLimitExceeded", unwrap(max)))]
             ELSE [env |-> [env1 EXCEPT
                              !.storage = triples_save(@, pk, unwrap(res.val))],
                   res |-> Ok("()")]

\* insert_use_fn reading an unset max_triple_count as zero
\* (unwrap_or_default) instead of skipping the check.
insert_use_fn_none_as_zero(env, res) ==
    IF ~res.ok
    THEN [env |-> env, res |-> Err(res.err)]
    ELSE LET pk == env.pk + 1
             store == [env.store EXCEPT !.stat.triples_count = @ + 1]
             env1 == [env EXCEPT !.pk = pk, !.store = store]
             max == IF is_some(store.limits.max_triple_count)
                    THEN unwrap(store.limits.max_triple_count)
                    ELSE 0
         IN  IF max < store.stat.triples_count
             THEN [env |-> env1,
                   res |-> Err(StoreErr("MaxTriplesLimitExceeded", max))]
             ELSE [env |-> [env1 EXCEPT
                              !.storage = triples_save(@, pk, unwrap(res.val))],
                   res |-> Ok("()")]

\* insert_use_fn saving the triple before the max_triple_count check.
insert_use_fn_save_before_check(env, res) ==
    IF ~res.ok
    THEN [env |-> env, res |-> Err(res.err)]
    ELSE LET pk == env.pk + 1
             store == [env.store EXCEPT !.stat.triples_count = @ + 1]
             env1 == [env EXCEPT !.pk = pk, !.store = store,
                                 !.storage = triples_save(@, pk, unwrap(res.val))]
             max == store.limits.max_triple_count
         IN  IF is_some(max) /\ unwrap(max) < store.stat.triples_count
             THEN [env |-> env1,
                   res |-> Err(StoreErr("MaxTriplesLimitExceeded", unwrap(max)))]
             ELSE [env |-> env1, res |-> Ok("()")]

\* The use_fn closure of insert: env holds the storage and the locals pk
\* and store that the closure captures.
insert_use_fn(env, res) ==
    IF ~res.ok
    THEN [env |-> env, res |-> Err(res.err)]
    ELSE LET pk == env.pk + 1
             store == [env.store EXCEPT !.stat.triples_count = @ + 1]
             env1 == [env EXCEPT !.pk = pk, !.store = store]
             max == store.limits.max_triple_count
         IN  IF is_some(max) /\ unwrap(max) < store.stat.triples_count
             THEN [env |-> env1,
                   res |-> Err(StoreErr("MaxTriplesLimitExceeded", unwrap(max)))]
             ELSE [env |-> [env1 EXCEPT
                              !.storage = triples_save(@, pk, unwrap(res.val))],
                   res |-> Ok("()")]

\* rdf::parse_triples(graph, convert_fn, use_fn), with the two closures
\* insert passes: every raw triple from position i on is converted and handed
\* to use_fn; the first error ends the parse. acc holds the closure's
\* environment and the result of the last use_fn call.
RECURSIVE parse_triples(_, _, _)
parse_triples(graph, i, acc) ==
    IF ~acc.res.ok
    THEN acc
    ELSE IF i > Len(graph.triples)
    THEN [env |-> acc.env,
          res |-> IF graph.syntax_error
                  THEN Err(StdErr("Parse error"))
                  ELSE Ok("()")]
    ELSE parse_triples(graph, i + 1,
                       insert_use_fn(acc.env, convert_fn[graph.triples[i]]))

\* insert_save without the final STORE.save: the incremented Stat is never
\* written.
insert_save_without_store(r, old_count) ==
    IF ~r.res.ok
    THEN [storage |-> r.env.storage, res |-> r.res]
    ELSE [storage |->
              [r.env.storage EXCEPT !.TRIPLE_KEY_INCREMENT = Some(r.env.pk)],
          res |-> Ok(Response_insert(r.env.store.stat.triples_count - old_count))]

\* insert_save without the final TRIPLE_KEY_INCREMENT.save: the next call
\* starts from the old key counter.
insert_save_without_key(r, old_count) ==
    IF ~r.res.ok
    THEN [storage |-> r.env.storage, res |-> r.res]
    ELSE [storage |-> [r.env.storage EXCEPT !.STORE = Some(r.env.store)],
          res |-> Ok(Response_insert(r.env.store.stat.triples_count - old_count))]

\* insert_save reporting the new triples_count instead of the difference to
\* old_count as inserted_count.
insert_save_reporting_total(r, old_count) ==
    IF ~r.res.ok
    THEN [storage |-> r.env.storage, res |-> r.res]
    ELSE [storage |->
              [r.env.storage EXCEPT
                  !.TRIPLE_KEY_INCREMENT = Some(r.env.pk),
                  !.STORE = Some(r.env.store)],
          res |-> Ok(Response_insert(r.env.store.stat.triples_count))]

\* insert_save saving a Store rebuilt from the owner and the new Stat, with
\* the limits left unset.
insert_save_resetting_limits(r, old_count) ==
    IF ~r.res.ok
    THEN [storage |-> r.env.storage, res |-> r.res]
    ELSE [storage |->
              [r.env.storage EXCEPT
                  !.TRIPLE_KEY_INCREMENT = Some(r.env.pk),
                  !.STORE =
                      Some([owner |-> r.env.store.owner,
                            limits |-> [l \in DOMAIN r.env.store.limits |-> None],
                            stat |-> r.env.store.stat])],
          res |-> Ok(Response_insert(r.env.store.stat.triples_count - old_count))]

\* The end of execute::insert, given the outcome r of parse_triples: an
\* error is returned as it is (the ? operator); otherwise the key counter
\* and the Store are saved and the response reports the inserted count.
insert_save(r, old_count) ==
    IF ~r.res.ok
    THEN [storage |-> r.env.storage, res |-> r.res]
    ELSE [storage |->
              [r.env.storage EXCEPT
                  !.TRIPLE_KEY_INCREMENT = Some(r.env.pk),
                  !.STORE = Some(r.env.store)],
          res |-> Ok(Response_insert(r.env.store.stat.triples_count - old_count))]

\* insert accepting RDF/XML only: the other declared formats are refused.
insert_rdfxml_only(storage, graph) ==
    IF storage.STORE = None \/ storage.TRIPLE_KEY_INCREMENT = None
    THEN [storage |-> storage, res |-> Err(StdErr("NotFound"))]
    ELSE IF graph.format # "RDFXml"
    THEN [storage |-> storage, res |-> Err(StdErr("Unsupported format"))]
    ELSE insert_save(
             parse_triples(graph, 1,
                           [env |-> [storage |-> storage,
                                     pk |-> unwrap(storage.TRIPLE_KEY_INCREMENT),
                                     store |-> unwrap(storage.STORE)],
                            res |-> Ok("()")]),
             unwrap(storage.STORE).stat.triples_count)

\* insert starting pk from zero instead of loading TRIPLE_KEY_INCREMENT.
insert_key_from_zero(storage, graph) ==
    IF storage.STORE = None \/ storage.TRIPLE_KEY_INCREMENT = None
    THEN [storage |-> storage, res |-> Err(StdErr("NotFound"))]
    ELSE insert_save(
             parse_triples(graph, 1,
                           [env |-> [storage |-> storage,
                                     pk |-> 0,
                                     store |-> unwrap(storage.STORE)],
                            res |-> Ok("()")]),
             unwrap(storage.STORE).stat.triples_count)

\* execute::insert(deps, graph): the storage as written by the call, and
\* the call's result.
insert(storage, graph) ==
    IF storage.STORE = None \/ storage.TRIPLE_KEY_INCREMENT = None
    THEN [storage |-> storage, res |-> Err(StdErr("NotFound"))]
    ELSE insert_save(
             parse_triples(graph, 1,
                           [env |-> [storage |-> storage,
                                     pk |-> unwrap(storage.TRIPLE_KEY_INCREMENT),
                                     store |-> unwrap(storage.STORE)],
                            res |-> Ok("()")]),
             unwrap(storage.STORE).stat.triples_count)

(* ----------------------------- entry points ---------------------------- *)

ContractInfo == [contract |-> "crates.io:okp4-cognitarium", version |-> "pkg"]

\* instantiate starting the key counter at one instead of zero.
instantiate_key_from_one(storage, info, msg) ==
    [storage |->
        [storage EXCEPT
            !.CONTRACT = Some(ContractInfo),
            !.STORE = Some(Store_new(info.sender, StoreLimits_from(msg.limits))),
            !.TRIPLE_KEY_INCREMENT = Some(1)],
     res |-> Ok(Response_default)]

\* instantiate(deps, _env, info, msg)
instantiate(storage, info, msg) ==
    [storage |->
        [storage EXCEPT
            !.CONTRACT = Some(ContractInfo),
            !.STORE = Some(Store_new(info.sender, StoreLimits_from(msg.limits))),
            !.TRIPLE_KEY_INCREMENT = Some(0)],
     res |-> Ok(Response_default)]

\* execute(deps, _env, _info, msg)
execute(storage, info, msg) ==
    CASE msg.kind = "InsertData" -> insert(storage, msg.input)

\* A query that hands back a partial response together with its error.
query_partial_result(storage, msg) ==
    [ok |-> FALSE,
     val |-> Some([head |-> [vars |-> <<>>], results |-> [bindings |-> <<>>]]),
     err |-> StdErr("Not implemented")]

\* query(_deps, _env, _msg)
query(storage, msg) == Err(StdErr("Not implemented"))

\* A host without rollback: the writes of a failed call are kept.
Commit_without_rollback(storage, call) == call.storage

\* The host's transaction around an entry point: the writes of a call are
\* committed when it returns Ok and discarded when it returns an error.
Commit(storage, call) == IF call.res.ok THEN call.storage ELSE storage

(* ------------------------------- actions ------------------------------- *)

SetStorage(storage) ==
    /\ CONTRACT' = storage.CONTRACT
    /\ STORE' = storage.STORE
    /\ TRIPLE_KEY_INCREMENT' = storage.TRIPLE_KEY_INCREMENT
    /\ TRIPLE' = storage.TRIPLE
    /\ TRIPLE__SUBJECT_PREDICATE' = storage.TRIPLE__SUBJECT_PREDICATE

\* Whether every raw triple of the input converts and the payload has no
\* syntax error.
WellFormed(input) ==
    /\ ~input.syntax_error
    /\ \A i \in 1..Len(input.triples) : convert_fn[input.triples[i]].ok

\* The canonical triples of a well-formed input, in stream order.
Converted(input) ==
    [i \in 1..Len(input.triples) |->
        unwrap(convert_fn[input.triples[i]].val)]

Init ==
    /\ CONTRACT = None
    /\ STORE = None
    /\ TRIPLE_KEY_INCREMENT = None
    /\ TRIPLE = EmptyMap
    /\ TRIPLE__SUBJECT_PREDICATE = {}
    /\ inserted = <<>>
    /\ DATAVERSE_CONTRACT = None
    /\ DATAVERSE = None
    /\ returned = [op |-> "none"]
    /\ lastCall = [op |-> "none", sender |-> "", limits |-> None, n |-> 0,
                   bytes |-> 0, valid |-> TRUE, query |-> None,
                   wrote |-> {}, result |-> Ok(Response_default)]

\* The host instantiates the contract once.
Instantiate ==
    \E sender \in Senders, limits \in StoreLimitsInputs :
        /\ STORE = None
        /\ \E call \in {instantiate(Storage, [sender |-> sender],
                                      [limits |-> limits])} :
               /\ SetStorage(Commit(Storage, call))
               /\ inserted' = <<>>
               /\ UNCHANGED <<DATAVERSE_CONTRACT, DATAVERSE, returned>>
               /\ lastCall' = [op |-> "instantiate", sender |-> sender,
                               limits |-> Some(limits), n |-> 0,
                               bytes |-> 0, valid |-> TRUE, query |-> None,
                               wrote |-> {}, result |-> call.res]

\* An ExecuteMsg::InsertData call on the instantiated contract.
Execute ==
    \E sender \in Senders, input \in DataInputs :
        /\ STORE # None
        /\ unwrap(TRIPLE_KEY_INCREMENT) + Len(input.triples) <= MaxKey
        /\ \E call \in {execute(Storage, [sender |-> sender],
                                  [kind |-> "InsertData", input |-> input])} :
               /\ SetStorage(Commit(Storage, call))
               /\ inserted' = IF call.res.ok
                               THEN inserted \o Converted(input)
                               ELSE inserted
               /\ UNCHANGED <<DATAVERSE_CONTRACT, DATAVERSE, returned>>
               /\ lastCall' = [op |-> "insert", sender |-> sender,
                               limits |-> None, n |-> Len(input.triples),
                               bytes |-> DataInput_byte_size(input),
                               valid |-> WellFormed(input), query |-> None,
                               wrote |-> DOMAIN call.storage.TRIPLE \ DOMAIN TRIPLE,
                               result |-> call.res]

\* msg::IRI::Full
IRI_Full(iri) == [kind |-> "Full", iri |-> iri]

\* msg::IRI::Prefixed
IRI_Prefixed(iri) == [kind |-> "Prefixed", iri |-> iri]

\* msg::Prefix
Prefix(prefix, namespace) == [prefix |-> prefix, namespace |-> namespace]

\* msg::SubjectPattern / PredicatePattern / ObjectPattern ::Variable
Pattern_Variable(name) == [kind |-> "Variable", name |-> name]

\* msg::PredicatePattern::Node(Node::NamedNode(iri))
Pattern_NamedNode(iri) == [kind |-> "Node", node |-> [kind |-> "NamedNode", iri |-> iri]]

\* msg::TriplePattern
TriplePattern(s, p, o) == [subject |-> s, predicate |-> p, object |-> o]

\* The where clause (?s, <n/p>, ?o).
WhereSubjectObjectOfP ==
    <<TriplePattern(Pattern_Variable("s"), Pattern_NamedNode(IRI_Full(IriP)),
                    Pattern_Variable("o"))>>

\* The where clause (?a, <n/p>, ?b), (?b, ?q, ?c): b is the object of the
\* first pattern and the subject of the second.
WhereChain ==
    <<TriplePattern(Pattern_Variable("a"), Pattern_NamedNode(IRI_Full(IriP)),
                    Pattern_Variable("b")),
      TriplePattern(Pattern_Variable("b"), Pattern_Variable("q"),
                    Pattern_Variable("c"))>>

\* The where clause (?s, ex:p, ?o), its predicate a prefixed IRI.
WherePrefixed ==
    <<TriplePattern(Pattern_Variable("s"),
                    Pattern_NamedNode(IRI_Prefixed(<<"e", "x", ":", "p">>)),
                    Pattern_Variable("o"))>>

\* The prefix declaration ex -> n/
PrefixEx == Prefix("ex", <<"n", "/">>)

\* msg::SelectQuery
SelectQuery(prefixes, select, where, limit) ==
    [prefixes |-> prefixes, select |-> select, where |-> where, limit |-> limit]

\* The Select queries tried against the store: an empty where clause with
\* nothing selected, without a limit and with limit 5, and the pattern
\* (?s, <n/p>, ?o) selecting s and o, without a limit and with limit 1; the
\* same pattern with the prefix ex declared; the chain of two patterns; and
\* the pattern with the prefixed predicate ex:p and no prefix declared.
SelectQueries ==
    { SelectQuery(<<>>, <<>>, <<>>, None),
      SelectQuery(<<>>, <<>>, <<>>, Some(5)),
      SelectQuery(<<>>, <<"s", "o">>, WhereSubjectObjectOfP, None),
      SelectQuery(<<>>, <<"s", "o">>, WhereSubjectObjectOfP, Some(1)),
      SelectQuery(<<PrefixEx>>, <<"s", "o">>, WhereSubjectObjectOfP, None),
      SelectQuery(<<>>, <<"a", "b", "c">>, WhereChain, None),
      SelectQuery(<<>>, <<"s", "o">>, WherePrefixed, None) }

\* A QueryMsg::Select call on the instantiated contract.
Query ==
    \E q \in SelectQueries :
        /\ STORE # None
        /\ \E res \in {query(Storage, [kind |-> "Select", query |-> q])} :
               /\ SetStorage(Storage)
               /\ inserted' = inserted
               /\ UNCHANGED <<DATAVERSE_CONTRACT, DATAVERSE, returned>>
               /\ lastCall' = [op |-> "query", sender |-> "",
                               limits |-> None, n |-> 0, bytes |-> 0,
                               valid |-> TRUE, query |-> Some(q),
                               wrote |-> {}, result |-> res]

Next == Instantiate \/ Execute \/ Query

Spec == Init /\ [][Next]_vars

(* ------------------------- notation for claims ------------------------- *)

Instantiated == STORE # None

owner == unwrap(STORE).owner

limits == unwrap(STORE).limits

triples_count == unwrap(STORE).stat.triples_count

key_counter == unwrap(TRIPLE_KEY_INCREMENT)

Persisted == DOMAIN TRIPLE

InsertReturned == lastCall.op = "insert"

InsertSucceeded == lastCall.op = "insert" /\ lastCall.result.ok

InsertFailed == lastCall.op = "insert" /\ ~lastCall.result.ok

inserted_count == unwrap(lastCall.result.val).inserted_count

\* triples().range_raw(storage, None, None, Order::Ascending): the persisted
\* triples in ascending primary-key order.
range_ascending ==
    [i \in 1..Cardinality(Persisted) |->
        TRIPLE[CHOOSE k \in Persisted :
                   Cardinality({j \in Persisted : j < k}) = i - 1]]

\* Total byte size of the persisted triples.
Store_byte_size ==
    SumOver([k \in Persisted |-> Triple_byte_size(TRIPLE[k])], Persisted)

\* The StoreError raised for each ceiling of StoreLimits.
StoreError_of ==
    [max_triple_count |-> "MaxTriplesLimitExceeded",
     max_byte_size |-> "MaxByteSize",
     max_triple_byte_size |-> "MaxTripleByteSize",
     max_query_limit |-> "MaxQueryLimit",
     max_query_variable_count |-> "MaxQueryVariableCount",
     max_insert_data_byte_size |-> "MaxInsertDataByteSize",
     max_insert_data_triple_count |-> "MaxInsertDataTripleCount"]

QueryReturned == lastCall.op = "query"

\* msg::Value projected from a stored term: URI for a named node, BlankNode
\* for a blank node, Literal with either a language tag or a datatype.
Value_of(term) ==
    CASE term.kind = "Named" ->
            [type |-> "uri",
             value |-> IRI_Full(term.node.namespace \o term.node.value)]
      [] term.kind = "Blank" -> [type |-> "blank_node", value |-> term.id]
      [] term.kind = "Literal" ->
            [type |-> "literal",
             value |-> term.literal.value,
             lang |-> IF term.literal.kind = "I18NString"
                      THEN Some(term.literal.language) ELSE None,
             datatype |-> IF term.literal.kind = "Typed"
                          THEN Some(IRI_Full(term.literal.datatype.namespace
                                             \o term.literal.datatype.value))
                          ELSE None]

(* ------------------------------- claims -------------------------------- *)

\* C1: in every committed state after instantiate, whatever inserts succeeded
\* or failed, Stat.triples_count equals the number of triples persisted in
\* the triple map.
C1_CountMatchesPersisted ==
    Instantiated => triples_count = Cardinality(Persisted)

\* C1 witness: a failed insert on a store that already holds two triples.
C1_Witness ==
    InsertFailed /\ lastCall.n >= 1 /\ Cardinality(Persisted) >= 2

\* C2: in every step after instantiate, each newly persisted triple gets a
\* key greater than every key persisted before, no persisted key comes to
\* hold another triple, the key counter and triples_count never decrease,
\* and they change only in a step of a successful insert.
C2_KeysIncrease ==
    [][Instantiated =>
        /\ \A k \in Persisted' \ Persisted : \A j \in Persisted : k > j
        /\ \A k \in Persisted : k \in Persisted' /\ TRIPLE'[k] = TRIPLE[k]
        /\ key_counter' >= key_counter
        /\ triples_count' >= triples_count
        /\ (key_counter' # key_counter \/ triples_count' # triples_count)
              => InsertSucceeded']_vars

\* C2 witness: a successful insert of one triple brought the store to at
\* least two keys, so keys were assigned by more than one call.
C2_Witness ==
    InsertSucceeded /\ lastCall.n = 1 /\ Cardinality(Persisted) >= 2

C4_MaxTripleCount ==
    [][(Instantiated /\ InsertReturned' /\ lastCall'.valid
            /\ is_some(limits.max_triple_count)) =>
        LET N == unwrap(limits.max_triple_count)
            c == triples_count
            k == lastCall'.n
        IN  /\ c + k <= N => lastCall'.result.ok
            /\ c + k > N =>
                  /\ ~lastCall'.result.ok
                  /\ lastCall'.result.err =
                        StoreErr("MaxTriplesLimitExceeded", N)]_vars

\* C4 witness: an insert of at least one triple succeeded and filled the
\* store up to max_triple_count exactly.
C4_Witness ==
    /\ InsertSucceeded
    /\ lastCall.n >= 1
    /\ limits.max_triple_count = Some(triples_count)

\* C5: an insert call whose sender is not the owner recorded at
\* instantiation fails with Unauthorized.
C5_NonOwnerUnauthorized ==
    (Instantiated /\ InsertReturned /\ lastCall.sender # owner) =>
        /\ ~lastCall.result.ok
        /\ lastCall.result.err.kind = "Unauthorized"

\* C6: in every committed state the secondary index holds, for every
\* persisted triple with key k, the entry (subject, predicate, k), and holds
\* no entry that is not the (subject, predicate, key) of a persisted triple.
C6_IndexMatchesTriples ==
    /\ \A k \in Persisted :
          subject_and_predicate(k, TRIPLE[k]) \in TRIPLE__SUBJECT_PREDICATE
    /\ \A e \in TRIPLE__SUBJECT_PREDICATE :
          /\ e.pk \in Persisted
          /\ e = subject_and_predicate(e.pk, TRIPLE[e.pk])

\* C6 witness: the index holds two keys under one (subject, predicate) pair
\* and a key under another pair.
C6_Witness ==
    \E e1, e2, e3 \in TRIPLE__SUBJECT_PREDICATE :
        /\ e1.pk # e2.pk
        /\ e1.subject = e2.subject /\ e1.predicate = e2.predicate
        /\ e3.subject # e1.subject

\* C7: an insert by the owner whose parsed input holds zero triples succeeds,
\* returns inserted_count = 0 and leaves triples_count, the key counter and
\* the persisted triples unchanged.
C7_EmptyInsert ==
    [][(Instantiated /\ InsertReturned' /\ lastCall'.sender = owner
            /\ lastCall'.n = 0 /\ lastCall'.valid) =>
        /\ lastCall'.result.ok
        /\ inserted_count' = 0
        /\ UNCHANGED <<STORE, TRIPLE_KEY_INCREMENT, TRIPLE,
                       TRIPLE__SUBJECT_PREDICATE>>]_vars

\* C7 witness: the owner's empty insert returned on a store holding a triple.
C7_Witness ==
    /\ InsertSucceeded
    /\ lastCall.sender = owner
    /\ lastCall.n = 0
    /\ triples_count >= 1

\* C8: a successful insert returns inserted_count equal to the number of
\* triples of the parsed input, to the increase of triples_count and to the
\* increase of the number of persisted triples.
C8_InsertedCount ==
    [][(Instantiated /\ InsertSucceeded') =>
        /\ inserted_count' = lastCall'.n
        /\ inserted_count' = triples_count' - triples_count
        /\ inserted_count' = Cardinality(Persisted') - Cardinality(Persisted)]_vars

\* C8 witness: a successful insert of two triples into a non-empty store.
C8_Witness ==
    InsertSucceeded /\ lastCall.n = 2 /\ triples_count > 2

\* C9: right after instantiate the owner is the instantiating sender, the
\* limits are the supplied limits, triples_count and the key counter are 0
\* and no triple is persisted.
C9_AfterInstantiate ==
    lastCall.op = "instantiate" =>
        /\ Instantiated
        /\ owner = lastCall.sender
        /\ \A l \in DOMAIN limits : limits[l] = unwrap(lastCall.limits)[l]
        /\ DOMAIN limits = DOMAIN unwrap(lastCall.limits)
        /\ triples_count = 0
        /\ TRIPLE_KEY_INCREMENT = Some(0)
        /\ Persisted = {}
        /\ TRIPLE__SUBJECT_PREDICATE = {}

\* C9 witness: instantiate returned for a sender with all seven limits set.
C9_Witness ==
    /\ lastCall.op = "instantiate"
    /\ lastCall.result.ok
    /\ lastCall.sender = "not-owner"
    /\ \A l \in DOMAIN limits : is_some(limits[l])

\* C10: after instantiate no insert or query call, successful or failed,
\* changes the owner or any of the seven limits.
C10_OwnerAndLimitsFixed ==
    [][Instantiated =>
        /\ Instantiated'
        /\ owner' = owner
        /\ limits' = limits]_vars

\* C10 witness: a successful insert into a store whose seven limits are set.
C10_Witness ==
    /\ InsertSucceeded
    /\ lastCall.n >= 1
    /\ \A l \in DOMAIN limits : is_some(limits[l])

\* C11: once a triple is persisted under key k, every later committed state
\* holds the same triple under k: no step removes a persisted triple or
\* puts another triple under its key.
C11_TriplesImmutable ==
    [][\A k \in Persisted : k \in Persisted' /\ TRIPLE'[k] = TRIPLE[k]]_vars

\* C11 witness: a successful insert added a different triple to a store
\* that already held one.
C11_Witness ==
    /\ InsertSucceeded
    /\ lastCall.n >= 1
    /\ Cardinality(Persisted) > lastCall.n
    /\ \E k \in Persisted : TRIPLE[k] # TRIPLE[1]

\* C12: the persisted triples in ascending primary-key order are the
\* inserted triples in insertion order: call after call and, within a call,
\* in the order of the parsed stream.
C12_IterationIsInsertionOrder ==
    Instantiated => range_ascending = inserted

\* C12 witness: three triples inserted by more than one call, the last call
\* being a batch of two different triples.
C12_Witness ==
    /\ InsertSucceeded
    /\ lastCall.n = 2
    /\ Len(inserted) = 3
    /\ inserted[2] # inserted[3]

\* C13: inserting a triple equal to one already persisted is a no-op: a
\* successful insert persists no new triple equal to a triple persisted
\* before the call, and the number of persisted triples, triples_count and
\* the key counter grow by no more than the number of input triples that
\* were not persisted before.
C13_DuplicateInsertIsNoOp ==
    [][(Instantiated /\ InsertSucceeded') =>
        LET fresh == {i \in (Len(inserted) + 1)..Len(inserted') :
                         \A j \in Persisted : TRIPLE[j] # inserted'[i]}
        IN  /\ \A k \in Persisted' \ Persisted :
                  \A j \in Persisted : TRIPLE'[k] # TRIPLE[j]
            /\ Cardinality(Persisted') - Cardinality(Persisted)
                  <= Cardinality(fresh)
            /\ triples_count' - triples_count <= Cardinality(fresh)
            /\ key_counter' - key_counter <= Cardinality(fresh)]_vars

\* C14: with max_byte_size = B the total byte size of the store's triples
\* never exceeds B, since an insert that would exceed it fails.
C14_MaxByteSize ==
    (Instantiated /\ is_some(limits.max_byte_size)) =>
        Store_byte_size <= unwrap(limits.max_byte_size)

\* C15: with max_insert_data_byte_size = B an insert whose payload exceeds B
\* bytes fails with MaxInsertDataByteSize(B).
C15_MaxInsertDataByteSize ==
    (Instantiated /\ InsertReturned
        /\ is_some(limits.max_insert_data_byte_size)
        /\ lastCall.bytes > unwrap(limits.max_insert_data_byte_size)) =>
        /\ ~lastCall.result.ok
        /\ lastCall.result.err =
              StoreErr(StoreError_of.max_insert_data_byte_size,
                       unwrap(limits.max_insert_data_byte_size))

\* C16: with max_insert_data_triple_count = M an insert whose parsed input
\* holds more than M triples fails with MaxInsertDataTripleCount(M).
C16_MaxInsertDataTripleCount ==
    (Instantiated /\ InsertReturned /\ lastCall.valid
        /\ is_some(limits.max_insert_data_triple_count)
        /\ lastCall.n > unwrap(limits.max_insert_data_triple_count)) =>
        /\ ~lastCall.result.ok
        /\ lastCall.result.err =
              StoreErr(StoreError_of.max_insert_data_triple_count,
                       unwrap(limits.max_insert_data_triple_count))

\* C17: with max_triple_byte_size = T a triple whose byte size exceeds T is
\* never persisted.
C17_MaxTripleByteSize ==
    (Instantiated /\ is_some(limits.max_triple_byte_size)) =>
        \A k \in Persisted :
            Triple_byte_size(TRIPLE[k]) <= unwrap(limits.max_triple_byte_size)

\* C18: no insert fails with the LimitExceeded error of a ceiling that is
\* unset, whatever the batch and the store size.
C18_UnsetMeansUnbounded ==
    (Instantiated /\ InsertFailed /\ lastCall.result.err.kind = "Store") =>
        \A c \in DOMAIN limits :
            limits[c] = None => lastCall.result.err.name # StoreError_of[c]

\* C18 witness: with max_triple_count unset a batch of two triples was
\* inserted into a store that then holds MaxKey triples.
C18_Witness ==
    /\ InsertSucceeded
    /\ lastCall.n = 2
    /\ limits.max_triple_count = None
    /\ triples_count = MaxKey

\* C19: a Select whose limit is greater than max_query_limit fails with
\* QueryTooComplex; a Select that omits the limit or gives one within
\* max_query_limit is evaluated.
C19_SelectLimit ==
    (Instantiated /\ QueryReturned) =>
        LET q == unwrap(lastCall.query)
            max == limits.max_query_limit
            over == is_some(q.limit) /\ is_some(max)
                        /\ unwrap(q.limit) > unwrap(max)
        IN  /\ over => (~lastCall.result.ok
                           /\ lastCall.result.err.name = "QueryTooComplex")
            /\ ~over => lastCall.result.ok

\* C20: on a store holding exactly one triple (s1, p1, o1), the Select with
\* where = [(?s, p1, ?o)] and select = [s, o] succeeds with exactly one
\* binding, s bound to URI(s1) and o to the projection of o1.
C20_SinglePatternSelect ==
    (/\ Instantiated /\ QueryReturned
     /\ unwrap(lastCall.query).where = WhereSubjectObjectOfP
     /\ unwrap(lastCall.query).select = <<"s", "o">>
     /\ Persisted = {1}
     /\ TRIPLE[1].subject.kind = "Named"
     /\ TRIPLE[1].predicate.namespace \o TRIPLE[1].predicate.value = IriP) =>
        /\ lastCall.result.ok
        /\ unwrap(lastCall.result.val).head.vars = <<"s", "o">>
        /\ unwrap(lastCall.result.val).results.bindings =
              <<[s |-> Value_of(TRIPLE[1].subject),
                 o |-> Value_of(TRIPLE[1].object)]>>

(* --------------------------- Select, expected -------------------------- *)

\* The query the last call carried and the SelectResponse it returned.
Query_of_call == unwrap(lastCall.query)

Response_of_call == unwrap(lastCall.result.val)

\* The limit of the query is above max_query_limit.
LimitExceeded(q) ==
    /\ is_some(q.limit)
    /\ is_some(limits.max_query_limit)
    /\ unwrap(q.limit) > unwrap(limits.max_query_limit)

\* The prefixes of the prefixed IRIs of the patterns of a where clause: the
\* characters before the first colon.
PrefixesUsed(where) ==
    { SubSeq(pat.node.iri.iri, 1,
             (CHOOSE i \in 1..Len(pat.node.iri.iri) :
                 /\ pat.node.iri.iri[i] = ":"
                 /\ \A j \in 1..(i - 1) : pat.node.iri.iri[j] # ":") - 1) :
        pat \in { p \in UNION { {where[i].subject, where[i].predicate,
                                 where[i].object} : i \in 1..Len(where) } :
                     p.kind = "Node" /\ p.node.iri.kind = "Prefixed" } }

\* A prefix as the characters of its declaration.
PrefixChars(prefix) == [i \in 1..Len(prefix) |-> SubSeq(prefix, i, i)]

\* The query uses a prefix that its prefixes do not declare.
UnknownPrefixUsed(q) ==
    \E used \in PrefixesUsed(q.where) :
        \A i \in 1..Len(q.prefixes) : PrefixChars(q.prefixes[i].prefix) # used

\* The keys of the persisted triples whose predicate is the IRI p, ascending.
KeysOfPredicate(p) ==
    LET keys == {k \in Persisted :
                    TRIPLE[k].predicate.namespace \o TRIPLE[k].predicate.value = p}
    IN  [i \in 1..Cardinality(keys) |->
            CHOOSE k \in keys : Cardinality({j \in keys : j < k}) = i - 1]

\* The bindings of (?s, <n/p>, ?o) over the store, in ascending key order.
BindingsOfP ==
    [i \in 1..Len(KeysOfPredicate(IriP)) |->
        [s |-> Value_of(TRIPLE[KeysOfPredicate(IriP)[i]].subject),
         o |-> Value_of(TRIPLE[KeysOfPredicate(IriP)[i]].object)]]

\* The bindings of the chain (?a, <n/p>, ?b), (?b, ?q, ?c) over the store.
BindingsOfChain ==
    { [a |-> Value_of(TRIPLE[k1].subject),
       b |-> Value_of(TRIPLE[k1].object),
       q |-> Value_of([kind |-> "Named", node |-> TRIPLE[k2].predicate]),
       c |-> Value_of(TRIPLE[k2].object)] :
        <<k1, k2>> \in
            { kk \in Persisted \X Persisted :
                /\ TRIPLE[kk[1]].predicate.namespace
                      \o TRIPLE[kk[1]].predicate.value = IriP
                /\ TRIPLE[kk[1]].object = TRIPLE[kk[2]].subject } }

(* ------------------------------- claims -------------------------------- *)

\* C21: the Select with the two-pattern where clause whose variable b is the
\* object of pattern 1 and the subject of pattern 2 (no limit) succeeds and
\* returns exactly the bindings of the stored chains, the shared variable
\* bound to the same term in both patterns.
C21_ChainSelect ==
    (Instantiated /\ QueryReturned /\ Query_of_call.where = WhereChain) =>
        /\ lastCall.result.ok
        /\ { Response_of_call.results.bindings[i] :
               i \in 1..Len(Response_of_call.results.bindings) }
              = BindingsOfChain

\* C22: the bindings of a Select with limit L are the first L bindings of
\* the enumeration in ascending primary-key order, and never more than L.
C22_FirstBindingsUpToLimit ==
    (/\ Instantiated /\ QueryReturned
     /\ Query_of_call.where = WhereSubjectObjectOfP
     /\ is_some(Query_of_call.limit)
     /\ ~LimitExceeded(Query_of_call)) =>
        /\ lastCall.result.ok
        /\ Len(Response_of_call.results.bindings) <= unwrap(Query_of_call.limit)
        /\ Response_of_call.results.bindings =
              SubSeq(BindingsOfP, 1,
                     IF Len(BindingsOfP) < unwrap(Query_of_call.limit)
                     THEN Len(BindingsOfP)
                     ELSE unwrap(Query_of_call.limit))

\* C23: a Select with an empty where clause succeeds with exactly one
\* binding, the empty binding, whatever the store holds.
C23_EmptyWhere ==
    (/\ Instantiated /\ QueryReturned
     /\ Query_of_call.where = <<>>
     /\ ~LimitExceeded(Query_of_call)) =>
        /\ lastCall.result.ok
        /\ Response_of_call.results.bindings = << <<>> >>

\* C24: a Select using a prefix its prefixes do not declare fails with
\* UnknownPrefix naming the prefix; a Select whose IRIs are all in full form
\* is evaluated as without prefixes, whatever prefixes it declares.
C24_UnknownPrefix ==
    (Instantiated /\ QueryReturned) =>
        /\ UnknownPrefixUsed(Query_of_call) =>
              /\ ~lastCall.result.ok
              /\ lastCall.result.err.name = "UnknownPrefix"
              /\ PrefixChars(lastCall.result.err.value)
                    \in PrefixesUsed(Query_of_call.where)
        /\ (/\ Query_of_call.prefixes # <<>>
            /\ Query_of_call.where = WhereSubjectObjectOfP
            /\ Query_of_call.limit = None) =>
              /\ lastCall.result.ok
              /\ Response_of_call.results.bindings = BindingsOfP

\* C25: the response of an evaluated Select has head.vars equal to the
\* select list in declared order, and each projected value is a URI, a
\* BlankNode or a Literal, a Literal never carrying both a language tag and
\* a datatype.
C25_ProjectedValues ==
    (/\ Instantiated /\ QueryReturned
     /\ ~LimitExceeded(Query_of_call)
     /\ ~UnknownPrefixUsed(Query_of_call)) =>
        /\ lastCall.result.ok
        /\ Response_of_call.head.vars = Query_of_call.select
        /\ \A i \in 1..Len(Response_of_call.results.bindings) :
              \A v \in DOMAIN Response_of_call.results.bindings[i] :
                 LET value == Response_of_call.results.bindings[i][v]
                 IN  /\ value.type \in {"uri", "blank_node", "literal"}
                     /\ value.type = "literal" =>
                           ~(is_some(value.lang) /\ is_some(value.datatype))

\* The storage right after instantiate with the limits of the current store.
FreshStorage ==
    instantiate([CONTRACT |-> None, STORE |-> None,
                 TRIPLE_KEY_INCREMENT |-> None, TRIPLE |-> EmptyMap,
                 TRIPLE__SUBJECT_PREDICATE |-> {}],
                [sender |-> owner], [limits |-> limits]).storage

\* The InsertData execution of an input under the declared format f.
ExecuteAs(storage, input, f) ==
    execute(storage, [sender |-> "owner"],
            [kind |-> "InsertData", input |-> [input EXCEPT !.format = f]])

CognitariumVars ==
    <<CONTRACT, STORE, TRIPLE_KEY_INCREMENT, TRIPLE, TRIPLE__SUBJECT_PREDICATE,
      inserted, lastCall>>

IriAlphabet == {"n", "#", "/", ":"}

\* The IRIs of at most MaxIriLen characters over IriAlphabet.
Iris == UNION { [1..n -> IriAlphabet] : n \in 0..MaxIriLen }

\* Node::try_from applied to the named node of an IRI.
NodeTryFrom ==
    \E iri \in Iris :
        /\ returned' = [op |-> "Node::try_from", input |-> iri,
                        result |-> Node_try_from(RawNamed(iri))]
        /\ UNCHANGED <<DATAVERSE_CONTRACT, DATAVERSE>>
        /\ UNCHANGED CognitariumVars

NodeConverted == returned.op = "Node::try_from" /\ returned.result.ok

\* C26: for every IRI the Node conversion accepts, the namespace followed by
\* the value is the original IRI.
C26_NodeReconstructsIri ==
    NodeConverted =>
        unwrap(returned.result.val).namespace
            \o unwrap(returned.result.val).value = returned.input

\* C26 witness: an accepted IRI with two separators, cut after the last one
\* into a namespace of several characters and a non-empty value.
C26_Witness ==
    /\ NodeConverted
    /\ Cardinality({i \in 1..Len(returned.input) :
                       returned.input[i] \in NamespaceSeparators}) >= 2
    /\ Len(unwrap(returned.result.val).namespace) >= 2
    /\ unwrap(returned.result.val).value # <<>>

(* ----------------------- SpecLib: okp4-dataverse ----------------------- *)

\* ContractError of okp4-dataverse: ParseRDF, InvalidCredential,
\* UnsupportedCredential, CredentialVerification, CredentialAlreadyExists.
DataverseErr(name, value) ==
    [kind |-> "Dataverse", name |-> name, value |-> value]

DataverseContractInfo ==
    [contract |-> "crates.io:okp4-dataverse", version |-> "pkg"]

DataverseStorage == [CONTRACT |-> DATAVERSE_CONTRACT, DATAVERSE |-> DATAVERSE]

\* The address of the dataverse contract itself (env.contract.address).
DataverseAddress == "dataverse-addr"

\* The code ids handed to instantiate: the querier knows the first only.
CodeIds == {17, 18}

\* deps.querier.query_wasm_code_info(code_id)
query_wasm_code_info(code_id) ==
    IF code_id = 17
    THEN Ok([code_id |-> code_id, creator |-> "creator", checksum |-> "3B94AA"])
    ELSE Err(StdErr("NoSuchCode"))

\* instantiate2_address(&checksum, &creator, &salt), humanized: the address
\* is determined by the three arguments.
instantiate2_address(checksum, creator, salt) ==
    [checksum |-> checksum, creator |-> creator, salt |-> salt]

\* WasmMsg::Instantiate2
WasmMsg_Instantiate2(admin, code_id, label, msg, funds, salt) ==
    [kind |-> "Instantiate2", admin |-> admin, code_id |-> code_id,
     label |-> label, msg |-> msg, funds |-> funds, salt |-> salt]

\* WasmMsg::Execute
WasmMsg_Execute(contract_addr, msg, funds) ==
    [kind |-> "Execute", contract_addr |-> contract_addr, msg |-> msg,
     funds |-> funds]

\* okp4-dataverse instantiate(deps, env, _info, msg)
dataverse_instantiate(storage, env, msg) ==
    LET code == query_wasm_code_info(msg.triplestore_config.code_id)
        triplestore_address ==
            instantiate2_address(unwrap(code.val).checksum,
                                 env.contract.address, msg.name)
    IN  IF ~code.ok
        THEN [storage |-> [storage EXCEPT
                              !.CONTRACT = Some(DataverseContractInfo)],
              res |-> Err(code.err)]
        ELSE [storage |->
                 [storage EXCEPT
                     !.CONTRACT = Some(DataverseContractInfo),
                     !.DATAVERSE =
                         Some([name |-> msg.name,
                               triplestore_address |-> triplestore_address])],
              res |->
                 Ok([attributes |->
                        <<<<"triplestore_address", triplestore_address>>>>,
                     messages |->
                        <<WasmMsg_Instantiate2(
                              Some(env.contract.address),
                              msg.triplestore_config.code_id,
                              <<msg.name, "_triplestore">>,
                              [limits |->
                                  StoreLimits_from(msg.triplestore_config.limits)],
                              <<>>, msg.name)>>])]

\* What a SubmitClaims payload yields: whether it parses as N-Quads, the
\* credential its dataset forms (none that is valid, an unsupported one, or
\* a supported one), whether the proof of the credential verifies, and the
\* id, subject and type of the credential.
Payloads ==
    { [rdf |-> FALSE, credential |-> "invalid", verified |-> FALSE, id |-> ""],
      [rdf |-> TRUE, credential |-> "invalid", verified |-> FALSE, id |-> ""],
      [rdf |-> TRUE, credential |-> "unsupported", verified |-> FALSE,
       id |-> ""] }
    \cup [rdf : {TRUE}, credential : {"supported"}, verified : BOOLEAN,
          id : {"credentials/1", "credentials/2"}]

\* The answers of the querier to the Select the registrar sends to the
\* triple store: an error, or a SelectResponse with 0, 1 or 2 bindings.
QuerierAnswers ==
    { Err(StdErr("Querier")) }
    \cup { Ok([head |-> [vars |-> <<>>],
               results |-> [bindings |-> [i \in 1..n |->
                                [p |-> [type |-> "blank_node", value |-> ""]]]]]) :
             n \in 0..2 }

\* DataverseCredential::try_from((info.sender, &vc))
DataverseCredential(sender, data) ==
    [id |-> data.id, submitter_addr |-> sender,
     subject |-> "subject", type |-> "type"]

\* ClaimRegistrar::submit_claim: ask the triple store for one triple whose
\* subject is the credential id; refuse the credential when there is one,
\* otherwise build the InsertData message for the triple store.
ClaimRegistrar_submit_claim(dataverse, querier, credential) ==
    IF ~querier.ok
    THEN Err(querier.err)
    ELSE IF Len(unwrap(querier.val).results.bindings) > 0
    THEN Err(DataverseErr("CredentialAlreadyExists", credential.id))
    ELSE Ok(WasmMsg_Execute(dataverse.triplestore_address,
                            [kind |-> "InsertData",
                             format |-> Some("NTriples"),
                             data |-> credential],
                            <<>>))

\* submit_claims that does not verify the credential.
submit_claims_without_verify(storage, querier, info, data) ==
    IF ~data.rdf
    THEN Err(DataverseErr("ParseRDF", ""))
    ELSE IF data.credential = "invalid"
    THEN Err(DataverseErr("InvalidCredential", ""))
    ELSE IF data.credential = "unsupported"
    THEN Err(DataverseErr("UnsupportedCredential", ""))
    ELSE IF storage.DATAVERSE = None
    THEN Err(StdErr("NotFound"))
    ELSE \* registrar.submit_claim(&deps, &credential)?
         LET credential == DataverseCredential(info.sender, data)
             msg == ClaimRegistrar_submit_claim(unwrap(storage.DATAVERSE),
                                                querier, credential)
         IN  IF ~msg.ok
             THEN msg
             ELSE Ok([attributes |->
                         << <<"action", "submit_claims">>,
                            <<"credential", credential.id>>,
                            <<"subject", credential.subject>>,
                            <<"type", credential.type>> >>,
                      messages |-> <<unwrap(msg.val)>>])

\* submit_claims that sends the credential without asking the registrar
\* whether it exists.
submit_claims_without_registrar(storage, querier, info, data) ==
    IF ~data.rdf
    THEN Err(DataverseErr("ParseRDF", ""))
    ELSE IF data.credential = "invalid"
    THEN Err(DataverseErr("InvalidCredential", ""))
    ELSE IF data.credential = "unsupported"
    THEN Err(DataverseErr("UnsupportedCredential", ""))
    ELSE IF ~data.verified
    THEN Err(DataverseErr("CredentialVerification", ""))
    ELSE IF storage.DATAVERSE = None
    THEN Err(StdErr("NotFound"))
    ELSE LET credential == DataverseCredential(info.sender, data)
         IN  Ok([attributes |->
                    << <<"action", "submit_claims">>,
                       <<"credential", credential.id>>,
                       <<"subject", credential.subject>>,
                       <<"type", credential.type>> >>,
                 messages |->
                    <<WasmMsg_Execute(
                          unwrap(storage.DATAVERSE).triplestore_address,
                          [kind |-> "InsertData", format |-> Some("NTriples"),
                           data |-> credential],
                          <<>>)>>])

\* execute::submit_claims(deps, info, data): read the quads, form the
\* credential, verify it, build the dataverse credential, load the
\* registrar and add the message it returns to the response.
submit_claims(storage, querier, info, data) ==
    IF ~data.rdf
    THEN Err(DataverseErr("ParseRDF", ""))
    ELSE IF data.credential = "invalid"
    THEN Err(DataverseErr("InvalidCredential", ""))
    ELSE IF data.credential = "unsupported"
    THEN Err(DataverseErr("UnsupportedCredential", ""))
    ELSE IF ~data.verified
    THEN Err(DataverseErr("CredentialVerification", ""))
    ELSE IF storage.DATAVERSE = None
    THEN Err(StdErr("NotFound"))
    ELSE LET credential == DataverseCredential(info.sender, data)
             msg == ClaimRegistrar_submit_claim(unwrap(storage.DATAVERSE),
                                                querier, credential)
         IN  IF ~msg.ok
             THEN msg
             ELSE Ok([attributes |->
                         << <<"action", "submit_claims">>,
                            <<"credential", credential.id>>,
                            <<"subject", credential.subject>>,
                            <<"type", credential.type>> >>,
                      messages |-> <<unwrap(msg.val)>>])

\* okp4-dataverse execute(deps, _env, info, msg)
dataverse_execute(storage, querier, info, msg) ==
    IF msg.kind = "SubmitClaims"
    THEN submit_claims(storage, querier, info, msg.metadata)
    ELSE Err(StdErr("Not implemented"))

\* okp4-dataverse query(_deps, _env, _msg)
dataverse_query(storage, msg) == Err(StdErr("Not implemented"))

DataverseNames == {"my-dataverse", "other"}

DataverseLimitsInputs == {l \in StoreLimitsInputs : l.max_triple_count = None}

DataverseExecuteMsgs ==
    [kind : {"SubmitClaims"}, metadata : Payloads]
    \cup { [kind |-> "Other", metadata |-> [rdf |-> FALSE,
                                             credential |-> "invalid",
                                             verified |-> FALSE, id |-> ""]] }

\* The host instantiates the dataverse contract once.
DataverseInstantiate ==
    \E name \in DataverseNames, code_id \in CodeIds,
       ls \in DataverseLimitsInputs :
        /\ DATAVERSE = None
        /\ \E call \in {dataverse_instantiate(
                            DataverseStorage,
                            [contract |-> [address |-> DataverseAddress]],
                            [name |-> name,
                             triplestore_config |->
                                 [code_id |-> code_id, limits |-> ls]])} :
               /\ DATAVERSE_CONTRACT' = Commit(DataverseStorage, call).CONTRACT
               /\ DATAVERSE' = Commit(DataverseStorage, call).DATAVERSE
               /\ returned' = [op |-> "dataverse::instantiate",
                               input |-> [name |-> name, code_id |-> code_id,
                                          limits |-> ls],
                               result |-> call.res]
        /\ UNCHANGED CognitariumVars

\* An execute call on the dataverse contract, instantiated or not (the
\* repository's tests call it on an empty storage), with the answer the
\* querier gives to the registrar.
DataverseExecute ==
    \E sender \in Senders, msg \in DataverseExecuteMsgs,
       querier \in QuerierAnswers :
        /\ returned' = [op |-> "dataverse::execute",
                        input |-> [sender |-> sender, msg |-> msg,
                                   querier |-> querier],
                        result |-> dataverse_execute(DataverseStorage, querier,
                                                     [sender |-> sender], msg)]
        /\ UNCHANGED <<DATAVERSE_CONTRACT, DATAVERSE>>
        /\ UNCHANGED CognitariumVars

\* A query call on the dataverse contract.
DataverseQuery ==
    /\ returned' = [op |-> "dataverse::query", input |-> "DataverseQuery",
                    result |-> dataverse_query(DataverseStorage, "Dataverse")]
    /\ UNCHANGED <<DATAVERSE_CONTRACT, DATAVERSE>>
    /\ UNCHANGED CognitariumVars

SubmitClaimsReturned ==
    returned.op = "dataverse::execute" /\ returned.input.msg.kind = "SubmitClaims"

\* The messages of the response of the last dataverse call; none on error.
MessagesReturned ==
    IF returned.result.ok THEN unwrap(returned.result.val).messages ELSE <<>>

\* The payload parsed, formed a supported credential and was verified.
CredentialAccepted ==
    /\ returned.input.msg.metadata.rdf
    /\ returned.input.msg.metadata.credential = "supported"
    /\ returned.input.msg.metadata.verified

\* The bindings of the querier's answer; none when the querier failed.
BindingsAnswered ==
    IF returned.input.querier.ok
    THEN unwrap(returned.input.querier.val).results.bindings
    ELSE <<>>

\* C28: submit_claims emits a message only when the payload parsed as RDF,
\* formed a supported credential, passed verification and the triple store
\* answered with no binding for the credential id; then, on the instantiated
\* contract, it emits exactly one Execute(InsertData) message addressed to
\* the stored triplestore_address with no funds.
C28_SubmitClaimsMessage ==
    SubmitClaimsReturned =>
        /\ MessagesReturned # <<>> =>
              /\ CredentialAccepted
              /\ returned.input.querier.ok
              /\ BindingsAnswered = <<>>
        /\ (/\ CredentialAccepted
            /\ returned.input.querier.ok
            /\ BindingsAnswered = <<>>
            /\ DATAVERSE # None) =>
              /\ returned.result.ok
              /\ Len(MessagesReturned) = 1
              /\ MessagesReturned[1].kind = "Execute"
              /\ MessagesReturned[1].msg.kind = "InsertData"
              /\ MessagesReturned[1].contract_addr
                    = unwrap(DATAVERSE).triplestore_address
              /\ MessagesReturned[1].funds = <<>>

\* C28 witness: a verified credential the triple store does not hold was
\* submitted to the instantiated contract, which returned one message.
C28_Witness ==
    /\ SubmitClaimsReturned
    /\ DATAVERSE # None
    /\ CredentialAccepted
    /\ returned.result.ok
    /\ Len(MessagesReturned) = 1

\* C29: when the triple store's answer for the credential id holds at least
\* one binding, submit_claims fails with CredentialAlreadyExists carrying
\* the credential id and emits no message.
C29_CredentialAlreadyExists ==
    (/\ SubmitClaimsReturned
     /\ DATAVERSE # None
     /\ CredentialAccepted
     /\ Len(BindingsAnswered) >= 1) =>
        /\ ~returned.result.ok
        /\ returned.result.err.name = "CredentialAlreadyExists"
        /\ returned.result.err.value = returned.input.msg.metadata.id
        /\ MessagesReturned = <<>>

\* C29 witness: a verified credential was refused as already existing on an
\* answer of two bindings.
C29_Witness ==
    /\ SubmitClaimsReturned
    /\ CredentialAccepted
    /\ Len(BindingsAnswered) = 2
    /\ ~returned.result.ok
    /\ returned.result.err.name = "CredentialAlreadyExists"

(* ------------------- SpecLib: cw-storage pagination -------------------- *)

u32_MAX == 2 ^ U32Bits - 1

MAX_PAGE_MAX_SIZE == u32_MAX - 1

DEFAULT_PAGE_MAX_SIZE == 30

DEFAULT_PAGE_DEFAULT_SIZE == 10

\* The page sizes tried: zero, the defaults and their successors, and the
\* three largest u32 values.
PageSizes ==
    {0, DEFAULT_PAGE_DEFAULT_SIZE, DEFAULT_PAGE_DEFAULT_SIZE + 1,
     DEFAULT_PAGE_MAX_SIZE, DEFAULT_PAGE_MAX_SIZE + 1,
     u32_MAX - 2, u32_MAX - 1, u32_MAX}

PaginationConfigs ==
    [max_page_size : {None} \cup {Some(n) : n \in PageSizes},
     default_page_size : {None} \cup {Some(n) : n \in PageSizes}]

\* PaginationConfig::validate
PaginationConfig_validate(self) ==
    IF is_some(self.max_page_size)
          /\ unwrap(self.max_page_size) > MAX_PAGE_MAX_SIZE
    THEN Err(StdErr("'max_page_size' cannot exceed 'u32::MAX - 1'"))
    ELSE IF is_some(self.default_page_size)
              /\ unwrap(self.default_page_size) >
                    (IF is_some(self.max_page_size)
                     THEN unwrap(self.max_page_size)
                     ELSE DEFAULT_PAGE_MAX_SIZE)
    THEN Err(StdErr("'default_page_size' cannot exceed 'max_page_size'"))
    ELSE Ok("()")

\* PaginationConfig::validate applied to a configuration.
PaginationValidate ==
    \E config \in PaginationConfigs :
        /\ returned' = [op |-> "PaginationConfig::validate", input |-> config,
                        result |-> PaginationConfig_validate(config)]
        /\ UNCHANGED <<DATAVERSE_CONTRACT, DATAVERSE>>
        /\ UNCHANGED CognitariumVars

\* impl From<PaginationConfig> for Pagination
Pagination_from(value) ==
    [max_page_size |-> IF is_some(value.max_page_size)
                       THEN unwrap(value.max_page_size)
                       ELSE DEFAULT_PAGE_MAX_SIZE,
     default_page_size |-> IF is_some(value.default_page_size)
                           THEN unwrap(value.default_page_size)
                           ELSE DEFAULT_PAGE_DEFAULT_SIZE]

\* A configuration that validate accepts, converted into the Pagination.
PaginationInto ==
    \E config \in PaginationConfigs :
        /\ PaginationConfig_validate(config).ok
        /\ returned' = [op |-> "Pagination::from", input |-> config,
                        result |-> Pagination_from(config)]
        /\ UNCHANGED <<DATAVERSE_CONTRACT, DATAVERSE>>
        /\ UNCHANGED CognitariumVars

\* The storage of a contract instantiated without any limit.
UnlimitedStorage ==
    instantiate([CONTRACT |-> None, STORE |-> None,
                 TRIPLE_KEY_INCREMENT |-> None, TRIPLE |-> EmptyMap,
                 TRIPLE__SUBJECT_PREDICATE |-> {}],
                [sender |-> "owner"],
                [limits |-> [max_triple_count |-> None,
                             max_byte_size |-> None,
                             max_triple_byte_size |-> None,
                             max_query_limit |-> None,
                             max_query_variable_count |-> None,
                             max_insert_data_byte_size |-> None,
                             max_insert_data_triple_count |-> None]]).storage

\* A raw triple that converts: named subject, predicate and object.
PlainRawTriple == RawTriple(RawNamed(IriA), RawNamed(IriP), RawNamed(IriB))

\* Triple::try_from applied to a raw triple, and an InsertData call on the
\* unlimited contract whose payload contains that triple alone, after or
\* before a triple that converts.
TripleTryFrom ==
    \E raw \in TermRawTriples, f \in Formats :
        \E stream \in {<<raw>>, <<PlainRawTriple, raw>>, <<raw, PlainRawTriple>>} :
            \E call \in {execute(UnlimitedStorage, [sender |-> "owner"],
                                 [kind |-> "InsertData",
                                  input |-> [format |-> f, triples |-> stream,
                                             syntax_error |-> FALSE]])} :
                /\ returned' = [op |-> "Triple::try_from", input |-> raw,
                                stream |-> stream,
                                result |-> Triple_try_from(raw),
                                call |-> call,
                                committed |-> Commit(UnlimitedStorage, call)]
                /\ UNCHANGED <<DATAVERSE_CONTRACT, DATAVERSE>>
                /\ UNCHANGED CognitariumVars

\* state::Node
Node(namespace, value) == [namespace |-> namespace, value |-> value]

\* state::Object::Named
Object_Named(node) == [kind |-> "Named", node |-> node]

\* state::Object::Blank
Object_Blank(id) == [kind |-> "Blank", id |-> id]

\* state::Object::Literal
Object_Literal(literal) == [kind |-> "Literal", literal |-> literal]

\* state::Literal::Simple
Literal_Simple(value) == [kind |-> "Simple", value |-> value]

\* state::Literal::I18NString
Literal_I18NString(value, language) ==
    [kind |-> "I18NString", value |-> value, language |-> language]

\* state::Literal::Typed
Literal_Typed(value, datatype) ==
    [kind |-> "Typed", value |-> value, datatype |-> datatype]

\* Object::as_hash, as the bytes it feeds the blake3 hasher, in the order of
\* its update calls; strings are the sequences of their bytes.
Object_as_hash(self) ==
    CASE self.kind = "Named" ->
            <<"n">> \o self.node.namespace \o self.node.namespace
      [] self.kind = "Blank" -> <<"b">> \o self.id
      [] self.kind = "Literal" ->
            <<"l">> \o
            (CASE self.literal.kind = "Simple" ->
                     <<"s">> \o self.literal.value
               [] self.literal.kind = "I18NString" ->
                     <<"i">> \o self.literal.value \o self.literal.language
               [] self.literal.kind = "Typed" ->
                     <<"t">> \o self.literal.value
                            \o self.literal.datatype.namespace
                            \o self.literal.datatype.value)

\* Objects to hash: named nodes of one namespace, a blank node, and literals
\* of each variant whose contents are cut at different places.
HashObjects ==
    { Object_Named(Node(<<"n", "/">>, <<"a">>)),
      Object_Named(Node(<<"n", "/">>, <<"b">>)),
      Object_Named(Node(<<"m", "/">>, <<"a">>)),
      Object_Blank(<<"b", "0">>),
      Object_Literal(Literal_Simple(<<"a">>)),
      Object_Literal(Literal_Simple(<<"a", "b">>)),
      Object_Literal(Literal_I18NString(<<"a">>, <<"e", "n">>)),
      Object_Literal(Literal_I18NString(<<"a", "e">>, <<"n">>)),
      Object_Literal(Literal_Typed(<<"a">>, Node(<<"b", ":">>, <<"c">>))),
      Object_Literal(Literal_Typed(<<"a", "b">>, Node(<<":">>, <<"c">>))) }

\* Object::as_hash applied to two objects.
ObjectAsHash ==
    \E left \in HashObjects, right \in HashObjects :
        /\ returned' = [op |-> "Object::as_hash",
                        left |-> left, right |-> right,
                        left_hash |-> Object_as_hash(left),
                        right_hash |-> Object_as_hash(right)]
        /\ UNCHANGED <<DATAVERSE_CONTRACT, DATAVERSE>>
        /\ UNCHANGED CognitariumVars

NextLib ==
    \/ NodeTryFrom
    \/ TripleTryFrom
    \/ ObjectAsHash
    \/ DataverseInstantiate
    \/ DataverseExecute
    \/ DataverseQuery
    \/ PaginationValidate
    \/ PaginationInto

SpecLib == Init /\ [][NextLib]_vars

Validated == returned.op = "PaginationConfig::validate"

\* C30: validate accepts a max_page_size only when it is less than
\* u32::MAX - 1, as the documentation of the field requires, and rejects
\* every other max_page_size.
C30_MaxPageSizeBelowLimit ==
    (Validated /\ is_some(returned.input.max_page_size)) =>
        /\ returned.result.ok =>
              unwrap(returned.input.max_page_size) < u32_MAX - 1
        /\ unwrap(returned.input.max_page_size) >= u32_MAX - 1 =>
              ~returned.result.ok

(* ------------------------ claims on Spec, continued -------------------- *)

\* The insert call failed on the max_triple_count check.
RejectedByMaxTripleCount ==
    /\ InsertFailed
    /\ lastCall.result.err.kind = "Store"
    /\ lastCall.result.err.name = StoreError_of.max_triple_count

\* C31: within an insert call the limit check of a triple comes before its
\* write: the storage the call wrote to, committed or not, never holds more
\* triples than max_triple_count, so the rejected triple was not written;
\* and the call stops at the rejection, the triples it wrote being the ones
\* that passed, under the keys following the key counter.
C31_CheckBeforeWrite ==
    (Instantiated /\ InsertReturned) =>
        /\ is_some(limits.max_triple_count) =>
              Cardinality(Persisted \cup lastCall.wrote)
                  <= unwrap(limits.max_triple_count)
        /\ RejectedByMaxTripleCount =>
              /\ lastCall.wrote =
                    (key_counter + 1)..unwrap(limits.max_triple_count)
              /\ Cardinality(lastCall.wrote) < lastCall.n

\* C31 witness: a batch of two was rejected on its second triple, the first
\* one written before the rejection and the second one not.
C31_Witness ==
    /\ RejectedByMaxTripleCount
    /\ lastCall.n = 2
    /\ Cardinality(lastCall.wrote) = 1

\* C32: a failing insert call has written no triple of its batch to storage.
C32_NoWriteBeforeAllValidated ==
    (Instantiated /\ InsertFailed) => lastCall.wrote = {}

\* The keys of a set in ascending order.
Ascending(keys) ==
    [i \in 1..Cardinality(keys) |->
        CHOOSE k \in keys : Cardinality({j \in keys : j < k}) = i - 1]

\* triples().idx.subject_and_predicate.prefix((s, p)).range(.., Ascending):
\* the primary keys the index holds under (s, p), ascending, each with the
\* triple loaded from the primary map.
index_candidates(s, p) ==
    LET pks == Ascending({e.pk : e \in {x \in TRIPLE__SUBJECT_PREDICATE :
                                           x.subject = s /\ x.predicate = p}})
    IN  [i \in 1..Len(pks) |->
            <<pks[i], IF pks[i] \in DOMAIN TRIPLE
                      THEN Some(TRIPLE[pks[i]]) ELSE None>>]

\* triples().range(.., Ascending) filtered on the subject s and predicate p.
scan_candidates(s, p) ==
    LET pks == Ascending({k \in DOMAIN TRIPLE :
                             TRIPLE[k].subject = s /\ TRIPLE[k].predicate = p})
    IN  [i \in 1..Len(pks) |-> <<pks[i], Some(TRIPLE[pks[i]])>>]

\* The canonical triples the inputs convert to.
ConvertedTriples ==
    {unwrap(convert_fn[raw].val) : raw \in {r \in RawTriples : convert_fn[r].ok}}

\* C33: for every fixed subject and predicate, the candidates obtained
\* through the (subject, predicate) index are the candidates of the
\* ascending full scan filtered on that subject and predicate, in the same
\* order.
C33_IndexEqualsFilteredScan ==
    \A s \in {t.subject : t \in ConvertedTriples},
       p \in {t.predicate : t \in ConvertedTriples} :
        index_candidates(s, p) = scan_candidates(s, p)

\* C33 witness: a store of three triples where one (subject, predicate) pair
\* has two candidates with another pair's triple stored between them.
C33_Witness ==
    /\ Cardinality(Persisted) = 3
    /\ TRIPLE[1] = TRIPLE[3]
    /\ TRIPLE[2].subject # TRIPLE[1].subject
    /\ Len(index_candidates(TRIPLE[1].subject, TRIPLE[1].predicate)) = 2
    /\ index_candidates(TRIPLE[1].subject, TRIPLE[1].predicate)[2][1] = 3

\* C36: in every committed state the key counter equals triples_count and
\* the primary keys in use are exactly 1..triples_count.
C36_KeysAreOneToCount ==
    Instantiated =>
        /\ key_counter = triples_count
        /\ Persisted = 1..triples_count

\* C36 witness: a store of two triples after a failed insert that had written
\* a further triple before it failed.
C36_Witness ==
    /\ Instantiated
    /\ triples_count = 2
    /\ InsertFailed
    /\ lastCall.wrote # {}

TripleConversionReturned == returned.op = "Triple::try_from"

\* Whether a canonical node is the split of the raw named node's IRI.
SameNode(raw, node) == node.namespace \o node.value = raw.iri

\* Whether a canonical literal is the raw literal in the same variant.
SameLiteral(raw, literal) ==
    /\ literal.value = raw.value
    /\ raw.kind = "Simple" => literal.kind = "Simple"
    /\ raw.kind = "LanguageTaggedString" =>
           literal.kind = "I18NString" /\ literal.language = raw.language
    /\ raw.kind = "Typed" =>
           literal.kind = "Typed" /\ SameNode(raw.datatype, literal.datatype)

\* Whether a canonical subject or object is the term of the same kind as the
\* raw term, with the same content.
SameKind(raw, term) ==
    CASE raw.kind = "NamedNode" ->
            term.kind = "Named" /\ SameNode(raw, term.node)
      [] raw.kind = "BlankNode" ->
            term.kind = "Blank" /\ term.id = raw.id
      [] raw.kind = "Literal" ->
            term.kind = "Literal" /\ SameLiteral(raw.literal, term.literal)
      [] OTHER -> FALSE

\* Whether the subject or the object of a raw triple is a quoted triple.
HasQuoted(raw) == raw.subject = RawQuoted \/ raw.object = RawQuoted

Hashed == returned.op = "Object::as_hash"

\* C37: Object::as_hash feeds the hasher a different byte sequence for any
\* two structurally different objects, among them two Named objects of one
\* namespace with different values and two literals whose value/language or
\* value/datatype boundaries differ.
C37_HashInputInjective ==
    (Hashed /\ returned.left # returned.right) =>
        returned.left_hash # returned.right_hash

PaginationDerived == returned.op = "Pagination::from"

\* C38: the Pagination derived from a PaginationConfig that validate
\* accepts, unset fields replaced by the defaults 30 and 10, has
\* default_page_size <= max_page_size.
C38_DerivedPaginationOrdered ==
    PaginationDerived =>
        returned.result.default_page_size <= returned.result.max_page_size

====
